---- MODULE Spec2Model ----
(***************************************************************************)
(* Model of src/app.py: the OCR text parser create_text_dictionary, the    *)
(* per-image pipeline detect_text, the persistence adapter                 *)
(* store_in_firestore and the Flask handler process_images_api.            *)
(*                                                                         *)
(* Python strings are sequences of one-character strings, so that strip,   *)
(* splitlines and the two regular expressions are computed, not assumed.   *)
(* A dictionary is a function whose domain is its set of keys.             *)
(***************************************************************************)
EXTENDS Integers, Sequences, FiniteSets, TLC

VARIABLES
    \* create_text_dictionary called on its own
    src_lines,          \* the raw lines the OCR text was made of (history)
    text,               \* the argument: one string, lines joined by "\n"
    p_pc,               \* "unused" | "ready" | "returned"
    p_result,           \* what the call did: [kind, dict, assigned]
    \* store_in_firestore called on its own
    s_pc,               \* "idle" | "returned"
    s_doc, s_data,      \* the arguments of the last call
    s_ok,               \* whether the collaborator's write went through
    s_raised,           \* whether the call raised to its caller
    db_before,          \* the store before the last call / request (history)
    \* detect_text called on its own
    d_pc,               \* "idle" | "returned"
    d_url, d_doc,       \* the arguments of the last call
    d_log,              \* the stages the call ran, in order
    d_raised,           \* the exception that left detect_text, or "none"
    \* process_images_api
    pc,                 \* "idle" | "loop" | "done"
    req,                \* the request body
    idx,                \* images of the list already attempted
    consolidated_data,  \* line 143
    attempted,          \* the image references the loop started on, in order
    outcomes,           \* per image: the exception its try block caught, or "none"
    ext,                \* collaborator calls made for the request, in order
    writes,             \* store_in_firestore calls of the request
    resp,               \* [status, body]
    \* the external document store: document id -> fields
    db

vars == <<src_lines, text, p_pc, p_result, s_pc, s_doc, s_data, s_ok, s_raised,
          db_before, d_pc, d_url, d_doc, d_log, d_raised, pc, req, idx,
          consolidated_data, attempted, outcomes, ext, writes, resp, db>>

parseVars == <<src_lines, text, p_pc, p_result>>
storeVars == <<s_pc, s_doc, s_data, s_ok, s_raised>>
detectVars == <<d_pc, d_url, d_doc, d_log, d_raised>>
batchVars == <<pc, req, idx, consolidated_data, attempted, outcomes, ext, writes,
               resp>>

----------------------------------------------------------------------------
(* Bounds *)

MaxLines == 6       \* raw lines of an OCR text given to the parser
MaxImages == 2      \* image references in one request

----------------------------------------------------------------------------
(* Characters and strings *)

NL == "\n"
CR == "\r"
Digits == {"0", "1", "2", "3", "4", "5", "6", "7", "8", "9"}
Letters == {"a", "b", "c", "d", "e", "f", "g", "h", "i", "j", "k", "l", "m",
            "n", "o", "p", "q", "r", "s", "t", "u", "v", "w", "x", "y", "z",
            "A", "B", "C", "D", "E", "F", "G", "H", "I", "J", "K", "L", "M",
            "N", "O", "P", "Q", "R", "S", "T", "U", "V", "W", "X", "Y", "Z"}
\* \w of a str pattern: alphanumerics and the underscore (ASCII ones here)
WordChars == Digits \cup Letters \cup {"_"}
\* what str.strip() removes
Whitespace == {" ", "\t", NL, CR}
\* what str.splitlines() breaks on (those of the alphabet used here)
LineBreaks == {NL, CR}

Min(a, b) == IF a <= b THEN a ELSE b

RECURSIVE LStrip(_)
LStrip(s) ==
    IF s # <<>> /\ Head(s) \in Whitespace THEN LStrip(Tail(s)) ELSE s

RECURSIVE RStrip(_)
RStrip(s) ==
    IF s # <<>> /\ s[Len(s)] \in Whitespace
    THEN RStrip(SubSeq(s, 1, Len(s) - 1))
    ELSE s

\* str.strip()
Strip(s) == RStrip(LStrip(s))

\* str.splitlines(): break after "\n", "\r" or "\r\n"; a final line break
\* opens no further line, and the empty string has no lines.
RECURSIVE SplitFrom(_, _, _, _)
SplitFrom(s, i, cur, acc) ==
    IF i > Len(s) THEN (IF cur = <<>> THEN acc ELSE Append(acc, cur))
    ELSE IF s[i] = CR /\ i < Len(s) /\ s[i + 1] = NL
         THEN SplitFrom(s, i + 2, <<>>, Append(acc, cur))
    ELSE IF s[i] \in LineBreaks
         THEN SplitFrom(s, i + 1, <<>>, Append(acc, cur))
    ELSE SplitFrom(s, i + 1, Append(cur, s[i]), acc)

SplitLines(s) == SplitFrom(s, 1, <<>>, <<>>)

\* "\n".join(lines)
RECURSIVE Join(_)
Join(ls) ==
    IF ls = <<>> THEN <<>>
    ELSE IF Len(ls) = 1 THEN ls[1]
    ELSE ls[1] \o <<NL>> \o Join(Tail(ls))

\* re.match(r'^(\d\.)+(\d|\w)$', item)
MatchAlternateDot(item) ==
    /\ Len(item) >= 3
    /\ Len(item) % 2 = 1
    /\ \A i \in 1..(Len(item) - 1) :
          IF i % 2 = 1 THEN item[i] \in Digits ELSE item[i] = "."
    /\ item[Len(item)] \in WordChars

\* re.match(r'^\d+$', item)
MatchAllDigits(item) ==
    /\ Len(item) >= 1
    /\ \A i \in 1..Len(item) : item[i] \in Digits

----------------------------------------------------------------------------
(* create_text_dictionary *)

EmptyDict == [k \in {} |-> <<>>]

\* lines = [line.strip() for line in text.splitlines() if line.strip()]
StrippedLines(t) ==
    LET raw == SplitLines(t)
        stripped == [i \in 1..Len(raw) |-> Strip(raw[i])]
    IN  SelectSeq(stripped, LAMBDA l : l # <<>>)

DataLines_FromFourth(lines) == SubSeq(lines, 4, Len(lines))

\* data = lines[4:]
DataLines(lines) == SubSeq(lines, 5, Len(lines))

\* the list comprehension of line 88
FilteredData(data) ==
    SelectSeq(data, LAMBDA item : MatchAlternateDot(item) \/ MatchAllDigits(item))

\* the if of line 96
IsKeyItem(item) ==
    /\ \E i \in 1..Len(item) : item[i] \in Digits
    /\ \E i \in 1..Len(item) : item[i] = "."

\* the elif of line 98
IsValueItem(item) ==
    /\ ~IsKeyItem(item)
    /\ \A i \in 1..Len(item) : item[i] \in Digits

KeysOf(filtered) == SelectSeq(filtered, IsKeyItem)
ValuesOf(filtered) == SelectSeq(filtered, IsValueItem)

\* output_dict after the assignments output_dict[keys[i]] = values[i],
\* i = 0 .. n-1, in that order (a later assignment to a key overwrites)
RECURSIVE AssignPairs(_, _, _)
AssignPairs(keys, values, n) ==
    IF n = 0 THEN EmptyDict
    ELSE LET d == AssignPairs(keys, values, n - 1)
         IN  [k \in DOMAIN d \cup {keys[n]} |->
                 IF k = keys[n] THEN values[n] ELSE d[k]]

\* The call's outcome. kind: "ok" (returned dict), "ValueError" (line 80) or
\* "IndexError" (values[i] of line 103 with i >= len(values); it is no
\* ValueError, so the except of line 105 lets it through). assigned counts
\* the assignments of line 103 that ran.
create_text_dictionary(t) ==
    LET lines == StrippedLines(t)
        filtered == FilteredData(DataLines(lines))
        keys == KeysOf(filtered)
        values == ValuesOf(filtered)
        total == Len(keys)
    IN  IF lines = <<>>
        THEN [kind |-> "ValueError", dict |-> EmptyDict, assigned |-> 0]
        ELSE IF total > Len(values)
        THEN [kind |-> "IndexError", dict |-> EmptyDict,
              assigned |-> Len(values)]
        ELSE [kind |-> "ok", dict |-> AssignPairs(keys, values, total),
              assigned |-> total]

----------------------------------------------------------------------------
(* The OCR texts given to the parser *)

LineBlank == <<" ", " ">>
LineKeyA == <<" ", "1", ".", "1">>
LineKeyB == <<"2", ".", "b", " ">>
LineValue == <<"7", " ">>
LineValueB == <<"0", "8">>
LineJunk == <<"1", ".">>

LinePool == {LineBlank, LineKeyA, LineKeyB, LineValue, LineValueB, LineJunk}

LineSeqs == UNION {[1..n -> LinePool] : n \in 0..MaxLines}

NoResult == [kind |-> "none", dict |-> EmptyDict, assigned |-> 0]

----------------------------------------------------------------------------
(* The document store and store_in_firestore *)

DocIds == {"d1", "d2"}

KeyA == <<"1", ".", "1">>
KeyB == <<"2", ".", "b">>
Val7 == <<"7">>
Val08 == <<"0", "8">>

\* the dictionaries over two fields and two values
SmallDicts ==
    UNION {[fs -> {Val7, Val08}] : fs \in SUBSET {KeyA, KeyB}}

EmptyStore == [d \in DocIds |-> EmptyDict]

\* what the store may hold before the program touches it
InitialStores ==
    {EmptyStore,
     [d \in DocIds |-> IF d = "d1" THEN [f \in {KeyA, KeyB} |-> Val08]
                       ELSE [f \in {KeyB} |-> Val7]]}

SetWithoutMerge(old, data_dict) == data_dict

\* doc_ref.set(data_dict, merge=True): the fields of data_dict are added
\* or overwritten, the document's other fields stay
SetMerge(old, data_dict) ==
    [f \in DOMAIN old \cup DOMAIN data_dict |->
        IF f \in DOMAIN data_dict THEN data_dict[f] ELSE old[f]]

\* store_in_firestore(data_dict, doc_id) on the store `store`; write_ok is
\* whether the collaborator's set() went through (it applies the write
\* whole or raises). The except of line 121 catches whatever it raises.
store_in_firestore(store, data_dict, doc_id, write_ok) ==
    [db |-> IF write_ok
            THEN [store EXCEPT ![doc_id] = SetMerge(@, data_dict)]
            ELSE store,
     raised |-> FALSE]

----------------------------------------------------------------------------
(* The images behind the URLs: what the fetch and the OCR collaborator do *)

Header == <<<<"N", "o">>, <<"I", "t", "e", "m">>, <<"1", ".", "1">>, <<"5">>>>

URLs == {"okA", "okB", "nofetch", "notext", "ocrerr", "partial", "ocrdown",
         "blank", "surplus", "nodata"}

\* fetch_ok: requests.get and raise_for_status pass; ocr_raises: the
\* text_detection call itself raises; texts: response.text_annotations is
\* non-empty; description: texts[0].description; error: the response's
\* error.message is non-empty (the collaborator may fill in annotations
\* and set error in the same response).
Image(fetch_ok, ocr_raises, texts, description, error) ==
    [fetch_ok |-> fetch_ok, ocr_raises |-> ocr_raises, texts |-> texts,
     description |-> description, error |-> error]

ImageWorld(u) ==
    CASE u = "okA" ->
           Image(TRUE, FALSE, TRUE, Join(Header \o <<LineKeyA, LineValue>>), FALSE)
      [] u = "okB" ->
           Image(TRUE, FALSE, TRUE,
                 Join(Header \o <<LineKeyA, LineValueB, LineKeyB, LineValue>>),
                 FALSE)
      [] u = "nofetch" -> Image(FALSE, FALSE, FALSE, <<>>, FALSE)
      [] u = "notext" -> Image(TRUE, FALSE, FALSE, <<>>, FALSE)
      [] u = "ocrerr" -> Image(TRUE, FALSE, FALSE, <<>>, TRUE)
      [] u = "partial" ->
           Image(TRUE, FALSE, TRUE, Join(Header \o <<LineKeyB, LineValueB>>), TRUE)
      [] u = "ocrdown" -> Image(TRUE, TRUE, FALSE, <<>>, FALSE)
      [] u = "blank" -> Image(TRUE, FALSE, TRUE, Join(<<LineBlank, LineBlank>>), FALSE)
      [] u = "surplus" ->
           Image(TRUE, FALSE, TRUE,
                 Join(Header \o <<LineKeyA, LineKeyB, LineValue>>), FALSE)
      [] u = "nodata" -> Image(TRUE, FALSE, TRUE, Join(<<LineJunk, LineValue>>), FALSE)

----------------------------------------------------------------------------
(* detect_text *)

Ev(stage, ok) == [stage |-> stage, ok |-> ok]

\* lines 37-62: the branch on texts, with the inner try of line 43
DetectTexts(store, w, document_id, write_ok) ==
    IF ~w.texts
    THEN [log |-> <<>>, raised |-> "none", db |-> store]
    ELSE LET r == create_text_dictionary(w.description)
         IN  IF r.kind = "ok"
             THEN LET st == store_in_firestore(store, r.dict, document_id,
                                               write_ok)
                  IN  [log |-> <<Ev("parse", TRUE), Ev("store", write_ok)>>,
                       raised |-> "none", db |-> st.db]
             ELSE IF r.kind = "ValueError"
             THEN [log |-> <<Ev("parse", FALSE)>>, raised |-> "none",
                   db |-> store]
             ELSE [log |-> <<Ev("parse", FALSE)>>, raised |-> r.kind,
                   db |-> store]

\* detect_text(image_url, document_id). log: the stages run, each with
\* whether it went well (for "ocr": the collaborator answered and reported
\* no error); raised: the exception that leaves the function. The function
\* has no return statement: a call that does not raise returns None.
detect_text(store, image_url, document_id, write_ok) ==
    LET w == ImageWorld(image_url)
    IN  IF ~w.fetch_ok
        THEN \* RequestException, caught at line 70
             [log |-> <<Ev("fetch", FALSE)>>, raised |-> "none",
              ret |-> "None", db |-> store]
        ELSE IF w.ocr_raises
        THEN [log |-> <<Ev("fetch", TRUE), Ev("ocr", FALSE)>>,
              raised |-> "GoogleAPICallError", ret |-> "None", db |-> store]
        ELSE LET t == DetectTexts(store, w, document_id, write_ok)
             IN  [log |-> <<Ev("fetch", TRUE), Ev("ocr", ~w.error)>> \o t.log,
                  \* line 64: the error of the response is looked at last
                  raised |-> IF t.raised # "none" THEN t.raised
                             ELSE IF w.error THEN "Exception" ELSE "none",
                  ret |-> "None",
                  db |-> t.db]

----------------------------------------------------------------------------
(* process_images_api *)

\* detect_text takes image_url and document_id (line 25); the handler's
\* call of line 148 passes image_url alone
DetectTextParams == 2
CallArgs(image_url) == <<image_url>>

\* A Python call of detect_text with the positional arguments args: a call
\* with a number of arguments other than the function's raises TypeError
\* before its body runs.
CallDetectText(store, args, write_ok) ==
    IF Len(args) # DetectTextParams
    THEN [log |-> <<>>, raised |-> "TypeError", ret |-> "None", db |-> store]
    ELSE detect_text(store, args[1], args[2], write_ok)

\* the request bodies: request.get_json() raises ("badjson"), returns None
\* ("null"), or returns an object whose image_urls / document_id may be
\* missing (data.get gives None)
RequestDocIds == {"", "d1"}

UrlLists == UNION {[1..n -> URLs] : n \in 0..MaxImages}

Request(kind, has_urls, image_urls, has_doc, document_id) ==
    [kind |-> kind, has_urls |-> has_urls, image_urls |-> image_urls,
     has_doc |-> has_doc, document_id |-> document_id]

NoRequest == Request("none", FALSE, <<>>, FALSE, "")

Requests ==
    {Request("badjson", FALSE, <<>>, FALSE, ""),
     Request("null", FALSE, <<>>, FALSE, "")}
    \cup {Request("object", FALSE, <<>>, FALSE, "")}
    \cup {Request("object", FALSE, <<>>, TRUE, d) : d \in RequestDocIds}
    \cup {Request("object", TRUE, l, FALSE, "") : l \in UrlLists}
    \cup {Request("object", TRUE, l, TRUE, d) :
             l \in UrlLists, d \in RequestDocIds}

Response(status, body) == [status |-> status, body |-> body]
NoResponse == Response(0, "")

MissingFields_And(r) ==
    (~r.has_urls \/ r.image_urls = <<>>) /\ (~r.has_doc \/ r.document_id = "")

\* line 140: not image_urls or not document_id
MissingFields(r) ==
    (~r.has_urls \/ r.image_urls = <<>>) \/ (~r.has_doc \/ r.document_id = "")

\* lines 136-143: read the body, check the two fields
ReceiveRequest ==
    /\ pc = "idle"
    /\ \E r \in Requests :
        /\ req' = r
        /\ IF r.kind # "object"
           THEN \* get_json raised, or None.get: the except of line 162
                /\ resp' = Response(500, "error")
                /\ pc' = "done"
           ELSE IF MissingFields(r)
           THEN /\ resp' = Response(400, "Missing image_urls or document_id")
                /\ pc' = "done"
           ELSE /\ resp' = NoResponse
                /\ pc' = "loop"
    /\ db_before' = db
    /\ UNCHANGED <<idx, consolidated_data, attempted, outcomes, ext, writes, db>>
    /\ UNCHANGED <<parseVars, storeVars, detectVars>>

\* consolidated_data.update(text_dict)
DictUpdate(d, e) ==
    [k \in DOMAIN d \cup DOMAIN e |-> IF k \in DOMAIN e THEN e[k] ELSE d[k]]

ProcessImage_NoCatch ==
    /\ pc = "loop"
    /\ idx < Len(req.image_urls)
    /\ \E write_ok \in BOOLEAN :
        LET image_url == req.image_urls[idx + 1]
            r == CallDetectText(db, CallArgs(image_url), write_ok)
        IN  /\ attempted' = Append(attempted, image_url)
            /\ outcomes' = Append(outcomes, r.raised)
            /\ ext' = ext \o r.log
            /\ db' = r.db
            /\ idx' = idx + 1
            /\ IF r.raised # "none"
               THEN /\ resp' = Response(500, "error")
                    /\ pc' = "done"
               ELSE UNCHANGED <<resp, pc>>
            /\ UNCHANGED consolidated_data
    /\ UNCHANGED <<req, writes, db_before>>
    /\ UNCHANGED <<parseVars, storeVars, detectVars>>

\* lines 145-153: one turn of the loop over image_urls
ProcessImage ==
    /\ pc = "loop"
    /\ idx < Len(req.image_urls)
    /\ \E write_ok \in BOOLEAN :
        LET image_url == req.image_urls[idx + 1]
            r == CallDetectText(db, CallArgs(image_url), write_ok)
        IN  /\ attempted' = Append(attempted, image_url)
            /\ outcomes' = Append(outcomes, r.raised)
            /\ ext' = ext \o r.log
            /\ db' = r.db
            /\ idx' = idx + 1
            /\ IF r.raised # "none"
               THEN \* except Exception of line 152: print, next image
                    UNCHANGED consolidated_data
               ELSE IF r.ret = "None"
               THEN \* if extracted_text: is false for None
                    UNCHANGED consolidated_data
               ELSE LET p == create_text_dictionary(r.ret)
                    IN  IF p.kind = "ok"
                        THEN consolidated_data' =
                                 DictUpdate(consolidated_data, p.dict)
                        ELSE UNCHANGED consolidated_data
    /\ UNCHANGED <<req, writes, resp, pc, db_before>>
    /\ UNCHANGED <<parseVars, storeVars, detectVars>>

Respond_NoEmptyCheck ==
    /\ pc = "loop"
    /\ idx = Len(req.image_urls)
    /\ \E write_ok \in BOOLEAN :
        LET st == store_in_firestore(db, consolidated_data,
                                     req.document_id, write_ok)
        IN  /\ writes' = Append(writes,
                    [doc |-> req.document_id, data |-> consolidated_data,
                     ok |-> write_ok])
            /\ ext' = Append(ext, Ev("store", write_ok))
            /\ db' = st.db
            /\ resp' = Response(200, "Images processed and data uploaded successfully")
    /\ pc' = "done"
    /\ UNCHANGED <<req, idx, consolidated_data, attempted, outcomes, db_before>>
    /\ UNCHANGED <<parseVars, storeVars, detectVars>>

\* lines 155-160: after the loop
Respond ==
    /\ pc = "loop"
    /\ idx = Len(req.image_urls)
    /\ \E write_ok \in BOOLEAN :
        IF DOMAIN consolidated_data = {}
        THEN /\ resp' = Response(400, "No valid text found in the provided images")
             /\ UNCHANGED <<writes, ext, db>>
        ELSE LET st == store_in_firestore(db, consolidated_data,
                                          req.document_id, write_ok)
             IN  /\ writes' = Append(writes,
                         [doc |-> req.document_id, data |-> consolidated_data,
                          ok |-> write_ok])
                 /\ ext' = Append(ext, Ev("store", write_ok))
                 /\ db' = st.db
                 /\ resp' = Response(200, "Images processed and data uploaded successfully")
    /\ pc' = "done"
    /\ UNCHANGED <<req, idx, consolidated_data, attempted, outcomes, db_before>>
    /\ UNCHANGED <<parseVars, storeVars, detectVars>>

----------------------------------------------------------------------------
(* The functions called on their own *)

\* create_text_dictionary(text)
ParseCall ==
    /\ p_pc = "ready"
    /\ p_result' = create_text_dictionary(text)
    /\ p_pc' = "returned"
    /\ UNCHANGED <<src_lines, text, db, db_before>>
    /\ UNCHANGED <<storeVars, detectVars, batchVars>>

\* store_in_firestore(data_dict, doc_id)
StoreCall ==
    /\ \E data_dict \in SmallDicts, doc_id \in DocIds, write_ok \in BOOLEAN :
        LET st == store_in_firestore(db, data_dict, doc_id, write_ok)
        IN  /\ s_doc' = doc_id
            /\ s_data' = data_dict
            /\ s_ok' = write_ok
            /\ s_raised' = st.raised
            /\ db' = st.db
    /\ s_pc' = "returned"
    /\ db_before' = db
    /\ UNCHANGED <<parseVars, detectVars, batchVars>>

\* detect_text(image_url, document_id)
DetectCall ==
    /\ \E image_url \in URLs, document_id \in DocIds, write_ok \in BOOLEAN :
        LET r == detect_text(db, image_url, document_id, write_ok)
        IN  /\ d_url' = image_url
            /\ d_doc' = document_id
            /\ d_log' = r.log
            /\ d_raised' = r.raised
            /\ db' = r.db
    /\ d_pc' = "returned"
    /\ db_before' = db
    /\ UNCHANGED <<parseVars, storeVars, batchVars>>

----------------------------------------------------------------------------
(* Specifications *)

ParseIdle ==
    /\ src_lines = <<>> /\ text = <<>> /\ p_pc = "unused" /\ p_result = NoResult

StoreIdle ==
    /\ s_pc = "idle" /\ s_doc = "" /\ s_data = EmptyDict
    /\ s_ok = FALSE /\ s_raised = FALSE

DetectIdle ==
    /\ d_pc = "idle" /\ d_url = "" /\ d_doc = "" /\ d_log = <<>>
    /\ d_raised = "none"

BatchIdle ==
    /\ pc = "idle" /\ req = NoRequest /\ idx = 0
    /\ consolidated_data = EmptyDict /\ attempted = <<>> /\ outcomes = <<>>
    /\ ext = <<>>
    /\ writes = <<>> /\ resp = NoResponse

StoreInit ==
    /\ db \in InitialStores
    /\ db_before = db

\* the server waiting for a request to POST /process_images
Init == ParseIdle /\ StoreIdle /\ DetectIdle /\ BatchIdle /\ StoreInit

Next == ReceiveRequest \/ ProcessImage \/ Respond

Spec == Init /\ [][Next]_vars

\* create_text_dictionary on every text of at most MaxLines pool lines
InitParse ==
    /\ src_lines \in LineSeqs
    /\ text = Join(src_lines)
    /\ p_pc = "ready"
    /\ p_result = NoResult
    /\ StoreIdle /\ DetectIdle /\ BatchIdle
    /\ db = EmptyStore /\ db_before = db

NextParse == ParseCall

SpecParse == InitParse /\ [][NextParse]_vars

\* any sequence of store_in_firestore calls
InitStore == ParseIdle /\ StoreIdle /\ DetectIdle /\ BatchIdle /\ StoreInit

NextStore == StoreCall

SpecStore == InitStore /\ [][NextStore]_vars

\* any sequence of detect_text calls
InitDetect == ParseIdle /\ StoreIdle /\ DetectIdle /\ BatchIdle /\ StoreInit

NextDetect == DetectCall

SpecDetect == InitDetect /\ [][NextDetect]_vars

----------------------------------------------------------------------------
(* What the claims speak of, stated without the parser's operators *)

\* the lines of the text that are non-empty after trimming, as given
SrcNonBlank == SelectSeq(src_lines, LAMBDA l : l # LineBlank)
\* the same lines trimmed
Trimmed(l) ==
    CASE l = LineKeyA -> KeyA
      [] l = LineKeyB -> KeyB
      [] l = LineValue -> Val7
      [] l = LineValueB -> Val08
      [] l = LineJunk -> LineJunk
      [] OTHER -> <<>>
\* the lines after the first four, and the key-shaped and all-digits ones
SrcData == SubSeq(SrcNonBlank, 5, Len(SrcNonBlank))
SrcKeys == SelectSeq(SrcData, LAMBDA l : l \in {LineKeyA, LineKeyB})
SrcValues == SelectSeq(SrcData, LAMBDA l : l \in {LineValue, LineValueB})

\* the request carries both fields
ValidRequest ==
    /\ req.kind = "object"
    /\ req.has_urls /\ req.image_urls # <<>>
    /\ req.has_doc /\ req.document_id # ""

\* the image's fetch, OCR and parse all succeed
ImageSucceeds(u) ==
    LET w == ImageWorld(u)
    IN  /\ w.fetch_ok /\ ~w.ocr_raises /\ w.texts /\ ~w.error
        /\ create_text_dictionary(w.description).kind = "ok"

\* the mappings of the images that succeed, merged in input order
RECURSIVE MergedMappings(_)
MergedMappings(urls) ==
    IF urls = <<>> THEN EmptyDict
    ELSE LET n == Len(urls)
             d == MergedMappings(SubSeq(urls, 1, n - 1))
             e == IF ImageSucceeds(urls[n])
                  THEN create_text_dictionary(ImageWorld(urls[n]).description).dict
                  ELSE EmptyDict
         IN  [k \in DOMAIN d \cup DOMAIN e |-> IF k \in DOMAIN e THEN e[k] ELSE d[k]]

Absent == <<"absent">>
FieldOf(doc, f) == IF f \in DOMAIN doc THEN doc[f] ELSE Absent
AllFields == {KeyA, KeyB}

StageRank(stage) ==
    CASE stage = "fetch" -> 1 [] stage = "ocr" -> 2
      [] stage = "parse" -> 3 [] stage = "store" -> 4

----------------------------------------------------------------------------
(* Claims *)

\* C1: for a request that carries both fields, the response reports success
\* (HTTP 200) if and only if at least one image of the list succeeded in
\* fetch, OCR and parse.
C1_SuccessIffSomeImageSucceeded ==
    (pc = "done" /\ ValidRequest) =>
        ((resp.status = 200) <=>
            \E i \in 1..Len(req.image_urls) : ImageSucceeds(req.image_urls[i]))

\* C2: for every text with at least one non-empty line,
\* create_text_dictionary returns without error a mapping made of the
\* min(|keys|, |values|) pairs keys[i] -> values[i]; surplus keys and
\* surplus values are dropped.
C2_PairsUpToShorterList ==
    (p_pc = "returned" /\ Len(SrcNonBlank) >= 1) =>
        LET n == Min(Len(SrcKeys), Len(SrcValues))
        IN  /\ p_result.kind = "ok"
            /\ p_result.assigned = n
            /\ DOMAIN p_result.dict = {Trimmed(SrcKeys[i]) : i \in 1..n}
            /\ \A i \in 1..n :
                  (\A j \in (i + 1)..n : SrcKeys[j] # SrcKeys[i])
                      => p_result.dict[Trimmed(SrcKeys[i])] = Trimmed(SrcValues[i])

\* C3: a request whose image_urls is missing or empty, or whose document_id
\* is missing or empty, is answered 400 with no image attempted, no
\* collaborator call made and the store untouched.
C3_InvalidRequestRejectedFirst ==
    (pc # "idle" /\ req.kind = "object"
        /\ (~req.has_urls \/ req.image_urls = <<>>
            \/ ~req.has_doc \/ req.document_id = ""))
    => /\ pc = "done"
       /\ resp.status = 400
       /\ attempted = <<>> /\ ext = <<>> /\ writes = <<>>
       /\ db = db_before

C3_Witness ==
    /\ pc = "done" /\ req.kind = "object"
    /\ req.has_urls /\ req.image_urls = <<>>
    /\ req.has_doc /\ req.document_id = "d1"
    /\ resp.status = 400

\* C4: every image reference of the list is attempted exactly once, in
\* input order, whatever became of the earlier ones, and an image's
\* failure never ends the request with HTTP 500.
C4_EveryImageAttemptedInOrder ==
    (pc # "idle" /\ ValidRequest) =>
        /\ attempted = SubSeq(req.image_urls, 1, idx)
        /\ (pc = "done" =>
               /\ attempted = req.image_urls
               /\ resp.status # 500)

C4_Witness ==
    /\ pc = "done" /\ ValidRequest
    /\ Len(req.image_urls) >= 2
    /\ ~ImageSucceeds(req.image_urls[1])
    /\ outcomes[1] # "none"
    /\ attempted = req.image_urls
    /\ resp.status # 500

\* C5: in detect_text the stages run in the order fetch, OCR, parse, store
\* and no stage runs after one that failed.
C5_NoStageAfterFailure ==
    \A i \in 1..Len(d_log) : \A j \in 1..Len(d_log) :
        i < j => /\ StageRank(d_log[i].stage) < StageRank(d_log[j].stage)
                 /\ d_log[i].ok

\* C6: create_text_dictionary raises its format error exactly for a text
\* with no non-empty line; with one to four non-empty lines it returns the
\* empty mapping; and every key and value of a returned mapping is a line
\* that comes after the first four non-empty ones.
C6_FormatErrorAndHeaderSkip ==
    p_pc = "returned" =>
        LET n == Len(SrcNonBlank)
        IN  /\ (p_result.kind = "ValueError") <=> (n = 0)
            /\ (n \in 1..4) =>
                  (p_result.kind = "ok" /\ DOMAIN p_result.dict = {})
            /\ (n >= 5 /\ p_result.kind = "ok") =>
                  \A k \in DOMAIN p_result.dict :
                      /\ \E i \in 5..n : Trimmed(SrcNonBlank[i]) = k
                      /\ \E i \in 5..n : Trimmed(SrcNonBlank[i]) = p_result.dict[k]

C6_Witness ==
    /\ p_pc = "returned"
    /\ Len(SrcNonBlank) >= 5
    /\ SrcNonBlank[1] = LineKeyB /\ SrcNonBlank[2] = LineValue
    /\ p_result.kind = "ok"
    /\ DOMAIN p_result.dict = {KeyA}
    /\ p_result.dict[KeyA] = Val08

\* C8: a call of store_in_firestore sets the fields of its mapping in the
\* document it names and leaves every other field of that document, and
\* every other document, as it was (a write that fails changes nothing);
\* it never raises.
C8_MergeKeepsOtherFields ==
    s_pc = "returned" =>
        /\ ~s_raised
        /\ \A d \in DocIds :
              /\ DOMAIN db[d] \subseteq AllFields
              /\ \A f \in AllFields :
                    FieldOf(db[d], f) =
                        IF d = s_doc /\ s_ok /\ f \in DOMAIN s_data
                        THEN s_data[f]
                        ELSE FieldOf(db_before[d], f)

C8_Witness ==
    /\ s_pc = "returned" /\ s_ok /\ s_doc = "d1"
    /\ DOMAIN s_data = {KeyA} /\ s_data[KeyA] = Val7
    /\ FieldOf(db_before["d1"], KeyA) = Val08
    /\ FieldOf(db["d1"], KeyA) = Val7
    /\ FieldOf(db["d1"], KeyB) = Val08
    /\ FieldOf(db["d2"], KeyB) = Val7

\* C9: the mapping persisted for a batch is the union, merged in input
\* order with the later image winning, of the mappings of the images that
\* were parsed successfully.
C9_PersistsUnionOfParsed ==
    (pc = "done" /\ ValidRequest
        /\ DOMAIN MergedMappings(req.image_urls) # {})
    => /\ Len(writes) = 1
       /\ writes[1].doc = req.document_id
       /\ writes[1].data = MergedMappings(req.image_urls)

\* C10: a request writes to the store at most once, only after the whole
\* list has been gone through and never an empty mapping; when no image
\* yielded a key the request ends with 400 and the store is as before.
C10_SingleLateNonEmptyWrite ==
    /\ Len(writes) <= 1
    /\ writes # <<>> =>
          /\ pc = "done"
          /\ attempted = req.image_urls
          /\ DOMAIN writes[1].data # {}
    /\ (pc = "done" /\ ValidRequest /\ DOMAIN consolidated_data = {}) =>
          /\ resp.status = 400
          /\ writes = <<>>
          /\ db = db_before

C10_Witness ==
    /\ pc = "done" /\ ValidRequest
    /\ Len(req.image_urls) >= 2
    /\ attempted = req.image_urls
    /\ DOMAIN consolidated_data = {}
    /\ resp.status = 400
    /\ db = db_before /\ DOMAIN db["d1"] # {}

====
